---- MODULE Spec2Model ----
(***************************************************************************)
(* Model of llmf's text-completions mapping: the template engine           *)
(* (TextCompletionsMappingTemplate: load, fill, parse) and the mapping     *)
(* engine built on it (ChatGPTTextCompletionsMapping.map, map_batch and    *)
(* map_corpus of TextCompletionsMapping, SchematizedTextCorpus.join).      *)
(*                                                                         *)
(* A Python str is a sequence of one-character strings.  A dict is a       *)
(* function whose DOMAIN is the set of its keys.  Optional[str] is a       *)
(* sequence of length at most one: <<>> is None, <<s>> is the string s.    *)
(* A call returns a record [ok, ..., err]: ok = FALSE is a raised          *)
(* exception and err its type and message arguments.                       *)
(***************************************************************************)
EXTENDS Integers, Sequences, FiniteSets, TLC

VARIABLES
    pc,         \* position of the template driver: "new", "loaded", "filled", "roundtrip", "parsed", "reverse"
    raw,        \* the string handed to TextCompletionsMappingTemplate.load
    tpl,        \* result of load: the template, or the raised error
    values,     \* the dict handed to fill
    filled,     \* result of fill
    text,       \* the string handed to parse
    parsed,     \* result of parse
    mpc,        \* position of the mapping engine: "init", "failed", "idle", "calling", "done"
    defn,       \* TextCompletionsMappingDefinition of the engine
    prefix,     \* ChatGPTTextCompletionsMapping._prompt_prefix
    input,      \* the record handed to map
    dflt,       \* parse_error_default handed to map (Optional)
    prompt,     \* the prompt handed to gpt_client.run
    completion, \* the completion gpt_client.run returned (Optional)
    dir,        \* the mapping directory: guidelines, the two raw templates, the example rows
    outcome,    \* result of map: the TextCompletionsMappingOutput, or the raised error
    calls,      \* number of gpt_client.run invocations made by the current map call
    cpc,        \* position of map_corpus: "ready", "mapping", "returned", "raised"; of join: "tables", "joined"
    corpus,     \* the SchematizedTextCorpus handed to map_corpus, or the left one of join
    opts,       \* include_inputs_in_output, include_debug_fields and the three debug field names
    idx,        \* position in the corpus of the record map_batch is at
    outs,       \* the list map_batch has built so far
    log,        \* the gpt_client.run invocations of the current map_corpus call, in order
    other,      \* output_corpus of map_corpus, or the right corpus of join (Optional)
    result      \* result of map_corpus or join: the corpus, or the raised error

tvars == <<pc, raw, tpl, values, filled, text, parsed>>
mvars == <<mpc, dir, defn, prefix, input, dflt, prompt, completion, outcome, calls>>
cvars == <<cpc, corpus, opts, idx, outs, log, other, result>>
vars == <<pc, raw, tpl, values, filled, text, parsed,
          mpc, dir, defn, prefix, input, dflt, prompt, completion, outcome, calls,
          cpc, corpus, opts, idx, outs, log, other, result>>

(***************************************************************************)
(* Bounds of the model.                                                    *)
(***************************************************************************)
MaxTokens == 3      \* a raw template is a concatenation of at most this many tokens
MaxValTokens == 2   \* a value handed to fill is a concatenation of at most this many tokens
MaxTextLen == 3     \* a text handed to parse has at most this many characters
MaxRecords == 2     \* a corpus has at most this many examples

(***************************************************************************)
(* Strings.                                                                *)
(***************************************************************************)
Min(S) == CHOOSE x \in S : \A y \in S : x <= y
Max(S) == CHOOSE x \in S : \A y \in S : x >= y

\* s[from:] of Python, from counted from 0; empty when from is past the end.
SliceFrom(s, from) == IF from >= Len(s) THEN <<>> ELSE SubSeq(s, from + 1, Len(s))

\* s[:to] of Python.
SliceTo(s, to) == IF to <= 0 THEN <<>> ELSE SubSeq(s, 1, IF to > Len(s) THEN Len(s) ELSE to)

\* The characters str.strip() removes, among the characters of the model.
Whitespace == {" "}

\* str.strip(): leading and trailing whitespace removed.
Strip(s) ==
    LET keep == {i \in 1..Len(s) : s[i] \notin Whitespace}
    IN  IF keep = {} THEN <<>> ELSE SubSeq(s, Min(keep), Max(keep))

\* str.strip('{}'): leading and trailing brace characters removed.
StripBraces(s) ==
    LET keep == {i \in 1..Len(s) : s[i] \notin {"{", "}"}}
    IN  IF keep = {} THEN <<>> ELSE SubSeq(s, Min(keep), Max(keep))

\* str.startswith(p)
StartsWith(s, p) == Len(p) <= Len(s) /\ SubSeq(s, 1, Len(p)) = p

\* The 0-based offsets at which sub occurs in s.
Occurrences(s, sub) ==
    {i \in 0..(Len(s) - Len(sub)) : SubSeq(s, i + 1, i + Len(sub)) = sub}

\* `sub in s` of Python.
Contains(s, sub) == Occurrences(s, sub) # {}

\* Mutant of IndexOf: the offset of the last occurrence (str.rindex).
IndexOfLast(s, sub) == Max(Occurrences(s, sub))

\* str.index(sub): offset of the first occurrence (called only when sub in s).
IndexOf(s, sub) == Min(Occurrences(s, sub))

\* Mutant of Replace: the first occurrence only (str.replace(old, new, 1)).
ReplaceFirst(s, old, new) ==
    IF ~Contains(s, old) THEN s
    ELSE LET i == Min(Occurrences(s, old))
         IN  SliceTo(s, i) \o new \o SliceFrom(s, i + Len(old))

\* str.replace(old, new): every non-overlapping occurrence, left to right.
RECURSIVE Replace(_, _, _)
Replace(s, old, new) ==
    IF ~Contains(s, old) THEN s
    ELSE LET i == IndexOf(s, old)
         IN  SliceTo(s, i) \o new \o Replace(SliceFrom(s, i + Len(old)), old, new)

\* "{" + key + "}"
Bracketed(key) == <<"{">> \o key \o <<"}">>

(***************************************************************************)
(* Results of calls.                                                       *)
(***************************************************************************)
None == <<>>
Some(x) == <<x>>

\* raise ValueError(msg)
ValueError(msg) == [type |-> "ValueError", msg |-> msg]
NoError == [type |-> "", msg |-> <<>>]

(***************************************************************************)
(* TextCompletionsMappingTemplate: load.                                   *)
(***************************************************************************)
\* TextCompletionsMappingTemplatePart(raw, key)
Part(r, k) == [raw |-> r, key |-> k]
IsKeyPart(p) == p.key # None

\* Position of the first "}" after position i of s, 0 when there is none:
\* where a match of \{[^}]*\} that starts at i ends.
CloseAfter(s, i) ==
    LET closes == {j \in (i + 1)..Len(s) : s[j] = "}"}
    IN  IF closes = {} THEN 0 ELSE Min(closes)

\* Last position of the maximal run of non-brace characters that starts at i:
\* where a match of [^{}]+ that starts at i ends.
RunEnd(s, i) ==
    LET stops == {j \in i..Len(s) : s[j] \in {"{", "}"}}
    IN  IF stops = {} THEN Len(s) ELSE Min(stops) - 1

\* pattern.finditer(raw) from position i on, each match turned into its part.
\* A brace that starts no match is skipped, as the regex scan skips it.
RECURSIVE MatchParts(_, _)
MatchParts(s, i) ==
    IF i > Len(s) THEN <<>>
    ELSE IF s[i] = "{" /\ CloseAfter(s, i) # 0
         THEN LET j == CloseAfter(s, i)
                  m == SubSeq(s, i, j)
              IN  <<Part(m, Some(StripBraces(m)))>> \o MatchParts(s, j + 1)
         ELSE IF s[i] \in {"{", "}"}
              THEN MatchParts(s, i + 1)
              ELSE LET e == RunEnd(s, i)
                   IN  <<Part(SubSeq(s, i, e), None)>> \o MatchParts(s, e + 1)

\* The check made after every appended part: the last two parts are of one kind.
SameKindAdjacent(parts) ==
    \E i \in 1..(Len(parts) - 1) : IsKeyPart(parts[i]) = IsKeyPart(parts[i + 1])

\* Mutant of ParseTemplateIntoParts: the alternation check left out.
ParseTemplateIntoPartsUnchecked(s) ==
    LET parts == MatchParts(s, 1)
    IN  IF Len(parts) = 0
        THEN [ok |-> FALSE, parts |-> <<>>, err |-> ValueError(<<"Empty">>)]
        ELSE [ok |-> TRUE, parts |-> parts, err |-> NoError]

\* _parse_template_into_parts(raw)
ParseTemplateIntoParts(s) ==
    LET parts == MatchParts(s, 1)
    IN  IF SameKindAdjacent(parts)
        THEN [ok |-> FALSE, parts |-> <<>>, err |-> ValueError(<<"MustAlternate">>)]
        ELSE IF Len(parts) = 0
             THEN [ok |-> FALSE, parts |-> <<>>, err |-> ValueError(<<"Empty">>)]
             ELSE [ok |-> TRUE, parts |-> parts, err |-> NoError]

\* re.findall(r'\{([^}]*)\}', raw) from position i on: the captured groups.
RECURSIVE FindAllKeys(_, _)
FindAllKeys(s, i) ==
    IF i > Len(s) THEN <<>>
    ELSE IF s[i] = "{" /\ CloseAfter(s, i) # 0
         THEN LET j == CloseAfter(s, i)
              IN  <<SubSeq(s, i + 1, j - 1)>> \o FindAllKeys(s, j + 1)
         ELSE FindAllKeys(s, i + 1)

\* The loop of _parse_template_keys: each key kept at its first occurrence.
RECURSIVE Unique(_, _)
Unique(ks, seen) ==
    IF ks = <<>> THEN <<>>
    ELSE IF Head(ks) \in seen
         THEN Unique(Tail(ks), seen)
         ELSE <<Head(ks)>> \o Unique(Tail(ks), seen \cup {Head(ks)})

\* _parse_template_keys(raw)
ParseTemplateKeys(s) == Unique(FindAllKeys(s, 1), {})

\* TextCompletionsMappingTemplate.load(raw)
Load(r) ==
    LET s == Strip(r)
        p == ParseTemplateIntoParts(s)
    IN  IF ~p.ok
        THEN [ok |-> FALSE, raw |-> s, parts |-> <<>>, keys |-> <<>>, err |-> p.err]
        ELSE [ok |-> TRUE, raw |-> s, parts |-> p.parts,
              keys |-> ParseTemplateKeys(s), err |-> NoError]

(***************************************************************************)
(* TextCompletionsMappingTemplate: fill.                                   *)
(***************************************************************************)
\* Mutant of FillKeys: a key without a value is left in place, not reported.
RECURSIVE FillKeysLenient(_, _, _, _)
FillKeysLenient(t, ks, cur, vals) ==
    IF ks = <<>> THEN [ok |-> TRUE, str |-> cur, err |-> NoError]
    ELSE IF Head(ks) \notin DOMAIN vals
         THEN FillKeysLenient(t, Tail(ks), cur, vals)
         ELSE FillKeysLenient(t, Tail(ks),
                              Replace(cur, Bracketed(Head(ks)), vals[Head(ks)]), vals)

\* The loop of fill over the keys still to substitute, cur the string so far.
RECURSIVE FillKeys(_, _, _, _)
FillKeys(t, ks, cur, vals) ==
    IF ks = <<>> THEN [ok |-> TRUE, str |-> cur, err |-> NoError]
    ELSE IF Head(ks) \notin DOMAIN vals
         THEN [ok |-> FALSE, str |-> <<>>,
               err |-> ValueError(<<"KeyMissing", Head(ks), t.raw>>)]
         ELSE FillKeys(t, Tail(ks),
                       Replace(cur, Bracketed(Head(ks)), vals[Head(ks)]), vals)

\* Mutant of Fill: a key without a value is left in place, not reported.
FillLenient(t, vals) == FillKeysLenient(t, t.keys, t.raw, vals)

\* TextCompletionsMappingTemplate.fill(values)
Fill(t, vals) == FillKeys(t, t.keys, t.raw, vals)

(***************************************************************************)
(* TextCompletionsMappingTemplate: parse.                                  *)
(***************************************************************************)
\* Mutant of DictOf: the first assignment to a key is kept (dict.setdefault).
DictOfFirst(writes) ==
    [k \in {writes[i][1] : i \in 1..Len(writes)} |->
        writes[Min({i \in 1..Len(writes) : writes[i][1] = k})][2]]

\* The dict left by a sequence of assignments d[k] = v, each <<k, v>>.
DictOf(writes) ==
    [k \in {writes[i][1] : i \in 1..Len(writes)} |->
        writes[Max({i \in 1..Len(writes) : writes[i][1] = k})][2]]

\* Mutant of ParseLoop: the text resumes at the literal found, not after it.
RECURSIVE ParseLoopKeepsLiteral(_, _, _, _)
ParseLoopKeepsLiteral(parts, i, cur, writes) ==
    IF i > Len(parts)
    THEN [ok |-> TRUE, dict |-> DictOf(writes), writes |-> writes, err |-> NoError]
    ELSE IF i = Len(parts)
         THEN ParseLoopKeepsLiteral(parts, i + 2, cur,
                                    Append(writes, <<parts[i].key[1], cur>>))
         ELSE LET lit == parts[i + 1].raw
              IN  IF ~Contains(cur, lit)
                  THEN [ok |-> FALSE, dict |-> <<>>, writes |-> <<>>,
                        err |-> ValueError(<<"ExpectedIn", lit, cur>>)]
                  ELSE LET n == IndexOf(cur, lit)
                       IN  ParseLoopKeepsLiteral(parts, i + 2, SliceFrom(cur, n),
                                     Append(writes, <<parts[i].key[1], SliceTo(cur, n)>>))

\* The while loop of parse: i the index of the current key part (from 1),
\* cur the text still to consume, writes the assignments made so far.
RECURSIVE ParseLoop(_, _, _, _)
ParseLoop(parts, i, cur, writes) ==
    IF i > Len(parts)
    THEN [ok |-> TRUE, dict |-> DictOf(writes), writes |-> writes, err |-> NoError]
    ELSE IF i = Len(parts)
         THEN ParseLoop(parts, i + 2, cur, Append(writes, <<parts[i].key[1], cur>>))
         ELSE LET lit == parts[i + 1].raw
              IN  IF ~Contains(cur, lit)
                  THEN [ok |-> FALSE, dict |-> <<>>, writes |-> <<>>,
                        err |-> ValueError(<<"ExpectedIn", lit, cur>>)]
                  ELSE LET n == IndexOf(cur, lit)
                       IN  ParseLoop(parts, i + 2, SliceFrom(cur, n + Len(lit)),
                                     Append(writes, <<parts[i].key[1], SliceTo(cur, n)>>))

\* The text the leading-literal test of parse looks at.
LeadingCheckText(txt) == txt

\* TextCompletionsMappingTemplate.parse(text)
Parse(t, txt) ==
    LET cur == Strip(txt)
        first == t.parts[1]
    IN  IF first.key = None
        THEN IF ~StartsWith(LeadingCheckText(txt), first.raw)
             THEN [ok |-> FALSE, dict |-> <<>>, writes |-> <<>>,
                   err |-> ValueError(<<"ExpectedAtStart", first.raw, txt>>)]
             ELSE ParseLoop(t.parts, 2, SliceFrom(cur, Len(first.raw)), <<>>)
        ELSE ParseLoop(t.parts, 1, cur, <<>>)

(***************************************************************************)
(* Inputs of the template driver.                                          *)
(***************************************************************************)
\* All concatenations of at most n members of T.
RECURSIVE Concats(_, _)
Concats(T, n) ==
    IF n = 0 THEN {<<>>}
    ELSE LET shorter == Concats(T, n - 1)
         IN  shorter \cup {s \o t : s \in shorter, t \in T}

RawTokens == {<<"{", "a", "}">>, <<"{", "b", "}">>, <<"{">>, <<"}">>, <<" ">>, <<",">>}

\* Longer templates: a value of one key that closes and opens a brace around
\* a literal named like a later key; literals around two placeholders.
LongRaws ==
    {<<"{", "b", "}", "a", "{", "b", "}", ",", "{", "a", "}">>,
     <<"a", "{", "a", "}", ",", "{", "b", "}", "a">>}

Raws == Concats(RawTokens, MaxTokens) \cup LongRaws

ValTokens == {<<"a">>, <<",">>, <<" ">>}
Vals == Concats(ValTokens, MaxValTokens) \cup {<<"{", "a", "}">>, <<"{", "b", "}">>, <<"}", "{">>}

\* An entry of values that is no key of any template of the model.
ExtraKey == <<"z">>
ExtraVal == <<"a">>

TextChars == {<<"a">>, <<",">>, <<" ">>}
Texts == Concats(TextChars, MaxTextLen)

KeySet(t) == {t.keys[i] : i \in 1..Len(t.keys)}

\* The dicts handed to fill: values for some of the template's keys, with
\* or without an entry that is no key of the template.
ValueDicts(t) ==
    UNION {[D -> Vals] : D \in SUBSET KeySet(t)}
    \cup UNION {{[k \in D \cup {ExtraKey} |-> IF k = ExtraKey THEN ExtraVal ELSE f[k]] :
                    f \in [D -> Vals]} : D \in SUBSET KeySet(t)}

NoTemplate == [ok |-> FALSE, raw |-> <<>>, parts |-> <<>>, keys |-> <<>>, err |-> NoError]
NoFill == [ok |-> FALSE, str |-> <<>>, err |-> NoError]
NoParse == [ok |-> FALSE, dict |-> <<>>, writes |-> <<>>, err |-> NoError]

(***************************************************************************)
(* The template driver: load a template, then fill it and parse the        *)
(* filled string back, or parse a given text.                              *)
(***************************************************************************)
TemplateInit ==
    /\ pc = "new"
    /\ raw \in Raws
    /\ tpl = NoTemplate
    /\ values = <<>>
    /\ filled = NoFill
    /\ text = <<>>
    /\ parsed = NoParse
    \* the mapping engine is not part of this specification
    /\ mpc = "off"
    /\ dir = <<>>
    /\ defn = <<>>
    /\ prefix = <<>>
    /\ input = <<>>
    /\ dflt = None
    /\ prompt = <<>>
    /\ completion = None
    /\ outcome = <<>>
    /\ calls = 0
    \* map_corpus and join are not part of this specification
    /\ cpc = "off"
    /\ corpus = <<>>
    /\ opts = <<>>
    /\ idx = 0
    /\ outs = <<>>
    /\ log = <<>>
    /\ other = <<>>
    /\ result = <<>>

\* TextCompletionsMappingTemplate.load(raw)
LoadTemplate ==
    /\ pc = "new"
    /\ tpl' = Load(raw)
    /\ pc' = "loaded"
    /\ UNCHANGED <<raw, values, filled, text, parsed>>
    /\ UNCHANGED mvars
    /\ UNCHANGED cvars

\* template.fill(values)
FillTemplate ==
    /\ pc = "loaded"
    /\ tpl.ok
    /\ \E v \in ValueDicts(tpl) :
          /\ values' = v
          /\ filled' = Fill(tpl, v)
    /\ pc' = "filled"
    /\ UNCHANGED <<raw, tpl, text, parsed>>
    /\ UNCHANGED mvars
    /\ UNCHANGED cvars

\* template.parse(template.fill(values))
ParseFilled ==
    /\ pc = "filled"
    /\ filled.ok
    /\ text' = filled.str
    /\ parsed' = Parse(tpl, filled.str)
    /\ pc' = "roundtrip"
    /\ UNCHANGED <<raw, tpl, values, filled>>
    /\ UNCHANGED mvars
    /\ UNCHANGED cvars

\* template.parse(text)
ParseText ==
    /\ pc = "loaded"
    /\ tpl.ok
    /\ \E t \in Texts :
          /\ text' = t
          /\ parsed' = Parse(tpl, t)
    /\ pc' = "parsed"
    /\ UNCHANGED <<raw, tpl, values, filled>>
    /\ UNCHANGED mvars
    /\ UNCHANGED cvars

\* template.fill(template.parse(text))
FillParsed ==
    /\ pc = "parsed"
    /\ parsed.ok
    /\ values' = parsed.dict
    /\ filled' = Fill(tpl, parsed.dict)
    /\ pc' = "reverse"
    /\ UNCHANGED <<raw, tpl, text, parsed>>
    /\ UNCHANGED mvars
    /\ UNCHANGED cvars

TemplateNext == LoadTemplate \/ FillTemplate \/ ParseFilled \/ ParseText \/ FillParsed

TemplateSpec == TemplateInit /\ [][TemplateNext]_vars

(***************************************************************************)
(* Notions the properties of the template are stated with.                 *)
(***************************************************************************)
\* The positions of the placeholder parts of a template, and their names.
KeyPositions(t) == {i \in 1..Len(t.parts) : IsKeyPart(t.parts[i])}
PartKeySet(t) == {t.parts[i].key[1] : i \in KeyPositions(t)}

\* Position in parts of the first placeholder named k.
FirstPosition(t, k) == Min({i \in KeyPositions(t) : t.parts[i].key[1] = k})

\* values restricted to the keys of the set K.
Restrict(f, K) == [k \in K \cap DOMAIN f |-> f[k]]

\* No leading or trailing whitespace.
IsTrimmed(s) == Strip(s) = s

\* No brace character.
BraceFree(s) == \A i \in 1..Len(s) : s[i] \notin {"{", "}"}

\* Every brace of s is the opening or the closing brace of a placeholder
\* {name} whose name has no brace in it.
PlainBraces(s) ==
    /\ \A i \in 1..Len(s) : s[i] = "{" =>
          /\ CloseAfter(s, i) # 0
          /\ \A j \in (i + 1)..(CloseAfter(s, i) - 1) : s[j] # "{"
    /\ \A j \in 1..Len(s) : s[j] = "}" =>
          \E i \in 1..(j - 1) : s[i] = "{" /\ CloseAfter(s, i) = j

\* The concatenation of the parts from position i on, each literal part
\* verbatim and each placeholder part replaced by its value.
RECURSIVE PartwiseFill(_, _, _)
PartwiseFill(parts, i, vals) ==
    IF i > Len(parts) THEN <<>>
    ELSE (IF IsKeyPart(parts[i]) THEN vals[parts[i].key[1]] ELSE parts[i].raw)
         \o PartwiseFill(parts, i + 1, vals)

\* Every key of the template has an entry in vals.
AllSupplied(t, vals) == KeySet(t) \subseteq DOMAIN vals

\* No entry of vals contains the bracketed form of a key of the template.
NoBracketCollision(t, vals) ==
    \A d \in DOMAIN vals : \A k \in KeySet(t) : ~Contains(vals[d], Bracketed(k))

\* No value of a key of the template contains a literal part of the template.
NoSeparatorCollision(t, vals) ==
    \A k \in KeySet(t) : \A i \in 1..Len(t.parts) :
        ~IsKeyPart(t.parts[i]) => ~Contains(vals[k], t.parts[i].raw)

\* In the value of each placeholder followed by its literal, that literal
\* occurs at the end only.
SeparatorsOnlyAtEnd(t, vals) ==
    \A i \in KeyPositions(t) : i < Len(t.parts) =>
        LET v == vals[t.parts[i].key[1]]
        IN  IndexOf(v \o t.parts[i + 1].raw, t.parts[i + 1].raw) = Len(v)

(***************************************************************************)
(* C2. load succeeds only with at least one part and parts that alternate  *)
(* between literal and placeholder; an empty or whitespace-only string and *)
(* a string of two adjacent placeholders fail to load.                     *)
(***************************************************************************)
AdjacentPlaceholderRaws ==
    {<<"{", "a", "}", "{", "b", "}">>, <<"{", "b", "}", "{", "a", "}">>,
     <<"{", "a", "}", "{", "a", "}">>}

\* C2: every loaded template has at least one part and strictly alternating
\* parts; loading an empty or blank string, or "{a}{b}", raises.
C2_LoadAlternates ==
    pc # "new" =>
        /\ tpl.ok =>
              /\ Len(tpl.parts) >= 1
              /\ \A i \in 1..(Len(tpl.parts) - 1) :
                    IsKeyPart(tpl.parts[i]) # IsKeyPart(tpl.parts[i + 1])
        /\ (\A i \in 1..Len(raw) : raw[i] \in Whitespace) =>
              ~tpl.ok /\ tpl.err = ValueError(<<"Empty">>)
        /\ raw \in AdjacentPlaceholderRaws =>
              ~tpl.ok /\ tpl.err = ValueError(<<"MustAlternate">>)

C2_Witness ==
    /\ pc = "loaded"
    /\ raw = <<"{", "a", "}", "{", "b", "}">>
    /\ ~tpl.ok

(***************************************************************************)
(* C3. keys has no duplicates, names exactly the placeholders of parts,    *)
(* and is in order of first occurrence.                                    *)
(***************************************************************************)
\* C3: for every loaded template, keys has no duplicates, its names are the
\* names of the placeholder parts, and it is ordered by first occurrence.
C3_KeysMatchParts ==
    (pc # "new" /\ tpl.ok) =>
        /\ \A i, j \in 1..Len(tpl.keys) : tpl.keys[i] = tpl.keys[j] => i = j
        /\ KeySet(tpl) = PartKeySet(tpl)
        /\ \A i, j \in 1..Len(tpl.keys) :
              (i < j /\ KeySet(tpl) = PartKeySet(tpl)) =>
                  FirstPosition(tpl, tpl.keys[i]) < FirstPosition(tpl, tpl.keys[j])

(***************************************************************************)
(* C4. fill raises for the first key of keys that values lacks; entries    *)
(* that are no keys of the template are harmless.                          *)
(***************************************************************************)
MissingKeys(t, vals) == {i \in 1..Len(t.keys) : t.keys[i] \notin DOMAIN vals}

\* C4: fill raises exactly when a key is absent from values, naming the
\* first absent key and the raw template and returning no string; entries
\* of values that are no keys of the template never make it fail.
C4_FillMissingKey ==
    pc \in {"filled", "roundtrip"} =>
        /\ MissingKeys(tpl, values) # {} =>
              /\ ~filled.ok
              /\ filled.str = <<>>
              /\ filled.err = ValueError(<<"KeyMissing",
                                  tpl.keys[Min(MissingKeys(tpl, values))], tpl.raw>>)
        /\ MissingKeys(tpl, values) = {} => filled.ok /\ filled.err = NoError

C4_Witness ==
    /\ pc = "filled"
    /\ Len(tpl.keys) = 2
    /\ MissingKeys(tpl, values) = {1, 2}
    /\ ExtraKey \in DOMAIN values
    /\ ~filled.ok
    /\ filled.err.msg[2] = tpl.keys[1]

(***************************************************************************)
(* C5. fill is the concatenation of the parts with every placeholder       *)
(* replaced by its value.                                                  *)
(***************************************************************************)
FillIsPartwise ==
    /\ filled.ok
    /\ PartKeySet(tpl) \subseteq DOMAIN values
    /\ filled.str = PartwiseFill(tpl.parts, 1, values)

\* C5 as stated: when every key is supplied and no supplied value contains
\* the bracketed form of a key, fill is the concatenation of the parts with
\* each placeholder replaced by values[key].
C5_FillConcatenatesParts ==
    (/\ pc \in {"filled", "roundtrip"}
     /\ AllSupplied(tpl, values)
     /\ NoBracketCollision(tpl, values)) => FillIsPartwise

\* C5, amended: the same, for a template whose only braces are those that
\* delimit its placeholders and for supplied values without brace characters.
C5_FillConcatenatesPartsPlain ==
    (/\ pc \in {"filled", "roundtrip"}
     /\ AllSupplied(tpl, values)
     /\ PlainBraces(tpl.raw)
     /\ \A d \in DOMAIN values : BraceFree(values[d])) => FillIsPartwise

C5_Witness ==
    /\ pc = "filled"
    /\ PlainBraces(tpl.raw)
    /\ Len(tpl.parts) = 3
    /\ Len(tpl.keys) = 1
    /\ AllSupplied(tpl, values)
    /\ BraceFree(values[tpl.keys[1]])
    /\ Len(values[tpl.keys[1]]) = 2
    /\ filled.ok
    /\ filled.str = values[tpl.keys[1]] \o tpl.parts[2].raw \o values[tpl.keys[1]]

(***************************************************************************)
(* C1. parse undoes fill.                                                  *)
(***************************************************************************)
RoundTrips == parsed.ok /\ parsed.dict = Restrict(values, KeySet(tpl))

\* C1 as stated: for a template with a placeholder and values that supply
\* every key, none containing a literal part of the template or the bracketed
\* form of a key, parse(fill(values)) succeeds and returns values.
C1_RoundTrip ==
    (/\ pc = "roundtrip"
     /\ KeyPositions(tpl) # {}
     /\ AllSupplied(tpl, values)
     /\ NoSeparatorCollision(tpl, values)
     /\ NoBracketCollision(tpl, values)) => RoundTrips

\* C1, amended: the same, when besides the template's only braces are those
\* that delimit its placeholders, no value of a key has a brace character,
\* the filled string has no leading or trailing whitespace, and each value
\* followed by the literal after its placeholder holds that literal at the
\* end only.
C1_RoundTripPlain ==
    (/\ pc = "roundtrip"
     /\ KeyPositions(tpl) # {}
     /\ AllSupplied(tpl, values)
     /\ NoSeparatorCollision(tpl, values)
     /\ NoBracketCollision(tpl, values)
     /\ PlainBraces(tpl.raw)
     /\ \A k \in KeySet(tpl) : BraceFree(values[k])
     /\ IsTrimmed(filled.str)
     /\ SeparatorsOnlyAtEnd(tpl, values)) => RoundTrips

C1_Witness ==
    /\ pc = "roundtrip"
    /\ PlainBraces(tpl.raw)
    /\ Len(tpl.keys) = 2
    /\ Len(tpl.parts) = 3
    /\ AllSupplied(tpl, values)
    /\ NoSeparatorCollision(tpl, values)
    /\ \A k \in KeySet(tpl) : BraceFree(values[k]) /\ Len(values[k]) = 2
    /\ values[tpl.keys[1]] # values[tpl.keys[2]]
    /\ IsTrimmed(filled.str)
    /\ SeparatorsOnlyAtEnd(tpl, values)
    /\ parsed.ok
    /\ parsed.dict = Restrict(values, KeySet(tpl))

(***************************************************************************)
(* C6. parse looks for the leading literal in the trimmed text.            *)
(***************************************************************************)
\* C6: parse(text) has the outcome of parse(trim(text)): the same mapping, or
\* a failure of the same kind; with a leading literal it fails at the start
\* exactly when the trimmed text does not start with that literal.
C6_ParseTrimsFirst ==
    pc = "parsed" =>
        LET onTrimmed == Parse(tpl, Strip(text))
        IN  /\ parsed.ok = onTrimmed.ok
            /\ parsed.dict = onTrimmed.dict
            /\ parsed.err.msg = <<>> <=> onTrimmed.err.msg = <<>>
            /\ parsed.err.msg # <<>> => parsed.err.msg[1] = onTrimmed.err.msg[1]
            /\ ~IsKeyPart(tpl.parts[1]) =>
                  ((~parsed.ok /\ parsed.err.msg[1] = "ExpectedAtStart")
                      <=> ~StartsWith(Strip(text), tpl.parts[1].raw))

(***************************************************************************)
(* C7. the walk of parse over placeholder/literal pairs.                   *)
(***************************************************************************)
\* The text left to the walk once the leading literal is consumed.
AfterLeading(t, txt) ==
    IF IsKeyPart(t.parts[1]) THEN Strip(txt)
    ELSE SliceFrom(Strip(txt), Len(t.parts[1].raw))

\* The placeholder positions of t in order.
KeyPositionSeq(t) ==
    LET n == Cardinality(KeyPositions(t))
    IN  [j \in 1..n |-> CHOOSE i \in KeyPositions(t) :
                            Cardinality({m \in KeyPositions(t) : m < i}) = j - 1]

\* Length of the text consumed by the first j extractions vs and the
\* literals that follow them.
RECURSIVE Consumed(_, _, _)
Consumed(t, vs, j) ==
    IF j = 0 THEN 0
    ELSE LET i == KeyPositionSeq(t)[j]
         IN  Consumed(t, vs, j - 1) + Len(vs[j])
             + (IF i < Len(t.parts) THEN Len(t.parts[i + 1].raw) ELSE 0)

\* vs are the extractions the walk is to make on the text rem: the j-th is
\* what stands before the first occurrence of the following literal in the
\* text left by the earlier ones, and all that is left for a last part.
Extracts(t, rem, vs) ==
    /\ Len(vs) = Cardinality(KeyPositions(t))
    /\ \A j \in 1..Len(vs) :
          LET i == KeyPositionSeq(t)[j]
              left == SliceFrom(rem, Consumed(t, vs, j - 1))
          IN  /\ Consumed(t, vs, j - 1) <= Len(rem)
              /\ IF i = Len(t.parts) THEN vs[j] = left
                 ELSE /\ StartsWith(left, vs[j] \o t.parts[i + 1].raw)
                      /\ \A n \in Occurrences(left, t.parts[i + 1].raw) : n >= Len(vs[j])
                      /\ ~Contains(vs[j], t.parts[i + 1].raw)

\* The contiguous pieces of s.
Pieces(s) == {<<>>} \cup {SubSeq(s, a, b) : a, b \in 1..Len(s)}

\* C7: once the leading literal is passed, a successful parse assigns to the
\* placeholders, in order, the text before the first occurrence of the
\* following literal in what is left (all that is left for a last part) and
\* resumes after that occurrence; it raises, with no mapping, exactly when
\* some following literal is not in what is left.
C7_ParseWalk ==
    (/\ pc \in {"parsed", "roundtrip"}
     /\ (parsed.ok \/ parsed.err.msg[1] = "ExpectedIn")) =>
        LET rem == AfterLeading(tpl, text)
            n == Cardinality(KeyPositions(tpl))
        IN  /\ parsed.ok =>
                  /\ Len(parsed.writes) = n
                  /\ \A j \in 1..n : parsed.writes[j][1] = tpl.parts[KeyPositionSeq(tpl)[j]].key[1]
                  /\ Extracts(tpl, rem, [j \in 1..n |-> parsed.writes[j][2]])
            /\ ~parsed.ok =>
                  /\ parsed.dict = <<>>
                  /\ \A vs \in [1..n -> Pieces(rem)] : ~Extracts(tpl, rem, vs)
                  /\ \E i \in KeyPositions(tpl) :
                        /\ i < Len(tpl.parts)
                        /\ parsed.err.msg[2] = tpl.parts[i + 1].raw
                        /\ ~Contains(parsed.err.msg[3], parsed.err.msg[2])

C7_Witness ==
    /\ pc = "parsed"
    /\ parsed.ok
    /\ Len(tpl.parts) = 3
    /\ KeyPositions(tpl) = {1, 3}
    /\ Cardinality(Occurrences(Strip(text), tpl.parts[2].raw)) >= 2
    /\ parsed.writes[1][2] # <<>>
    /\ Contains(parsed.writes[2][2], tpl.parts[2].raw)

(***************************************************************************)
(* C8. a successful parse returns a value for exactly the keys of keys.    *)
(***************************************************************************)
\* C8: whenever parse succeeds, the keys of the returned mapping are exactly
\* the names in the template's keys.
C8_ParsedKeysAreKeys ==
    (pc \in {"parsed", "roundtrip"} /\ parsed.ok) => DOMAIN parsed.dict = KeySet(tpl)

(***************************************************************************)
(* SchematizedTextCorpus and SchematizedTextCorpusExample                  *)
(*                                                                         *)
(* A corpus is a record [fields, examples]: the tuple of its field names   *)
(* and the tuple of its examples, an example being the dict of its field   *)
(* values.                                                                 *)
(***************************************************************************)
Range(f) == {f[i] : i \in DOMAIN f}

\* SchematizedTextCorpus(fields, examples)
Corpus(f, e) == [fields |-> f, examples |-> e]

NoResult == [ok |-> FALSE, corpus |-> Corpus(<<>>, <<>>), err |-> NoError]

\* A call left by the exception e: no corpus is returned.
CorpusError(e) == [NoResult EXCEPT !.err = e]

Returned(c) == [ok |-> TRUE, corpus |-> c, err |-> NoError]

\* SchematizedTextCorpusExample.__add__: dict(self, **other), the values of
\* other standing for the keys the two have in common.
Concat(x, y) ==
    [k \in DOMAIN x \cup DOMAIN y |-> IF k \in DOMAIN y THEN y[k] ELSE x[k]]

\* Mutant of Join: the number of rows is compared before the fields.
JoinRowsFirst(l, r) ==
    IF Len(l.examples) # Len(r.examples)
    THEN CorpusError(ValueError(<<"RowCount">>))
    ELSE IF Range(l.fields) \cap Range(r.fields) # {}
         THEN CorpusError(ValueError(<<"FieldsInCommon">>))
         ELSE Returned(Corpus(l.fields \o r.fields,
                              [i \in 1..Len(l.examples) |->
                                  Concat(l.examples[i], r.examples[i])]))

\* SchematizedTextCorpus.join(other)
Join(l, r) ==
    IF Range(l.fields) \cap Range(r.fields) # {}
    THEN CorpusError(ValueError(<<"FieldsInCommon">>))
    ELSE IF Len(l.examples) # Len(r.examples)
         THEN CorpusError(ValueError(<<"RowCount">>))
         ELSE Returned(Corpus(l.fields \o r.fields,
                              [i \in 1..Len(l.examples) |->
                                  Concat(l.examples[i], r.examples[i])]))

\* The keys of a mapping read from a file, in the order of the file; the
\* mapping itself is DictOf of its <<key, value>> pairs.
PairKeys(pairs) == Unique([i \in 1..Len(pairs) |-> pairs[i][1]], {})

\* The first of the fields fs, in order, that the dict d does not have
\* (Optional).
FirstMissing(fs, d) ==
    LET m == {j \in 1..Len(fs) : fs[j] \notin DOMAIN d}
    IN  IF m = {} THEN None ELSE Some(fs[Min(m)])

\* SchematizedTextCorpus._load_from_yaml on a file that holds the list rows
\* of mappings, each a sequence of <<field, value>> pairs: the fields are
\* those of the first mapping, which an empty list does not have
\* (IndexError), and every mapping is asked for each of them (KeyError).
LoadFromYaml(rows) ==
    IF rows = <<>> THEN CorpusError([type |-> "IndexError", msg |-> <<>>])
    ELSE LET fields == PairKeys(rows[1])
             bad == {i \in 1..Len(rows) : FirstMissing(fields, DictOf(rows[i])) # None}
         IN  IF bad # {}
             THEN CorpusError([type |-> "KeyError",
                               msg |-> FirstMissing(fields, DictOf(rows[Min(bad)]))])
             ELSE Returned(Corpus(fields,
                                  [i \in 1..Len(rows) |->
                                      Restrict(DictOf(rows[i]), Range(fields))]))

\* SchematizedTextCorpus._load_from_tsv on a file of the header line header
\* and the lines rows, each with one cell per field of the header: the
\* fields are the header, a header without lines gives a corpus of no
\* examples.
LoadFromTsv(file) ==
    Returned(Corpus(file.header,
                    [i \in 1..Len(file.rows) |->
                        DictOf([j \in 1..Len(file.header) |->
                                   <<file.header[j], file.rows[i][j]>>])]))

(***************************************************************************)
(* TextCompletionsMappingDefinition.load_from_directory and the prompt     *)
(* prefix of ChatGPTTextCompletionsMapping.                                *)
(***************************************************************************)
NoDefinition ==
    [ok |-> FALSE, guidelines |-> <<>>, input_template |-> NoTemplate,
     output_template |-> NoTemplate, examples |-> <<>>, err |-> NoError]

DefinitionError(e) == [NoDefinition EXCEPT !.err = e]

\* The loop of _load_examples_from_file over the examples exs of the
\* corpus read from the file: each is asked for the input keys, then the
\* output keys, in order; an example without one of them raises KeyError.
LoadExamples(exs, inKeys, outKeys) ==
    LET bad == {i \in 1..Len(exs) : FirstMissing(inKeys \o outKeys, exs[i]) # None}
    IN  IF bad # {}
        THEN [ok |-> FALSE, examples |-> <<>>,
              err |-> [type |-> "KeyError",
                       msg |-> FirstMissing(inKeys \o outKeys, exs[Min(bad)])]]
        ELSE [ok |-> TRUE,
              examples |-> [i \in 1..Len(exs) |->
                               [inputs |-> [k \in Range(inKeys) |-> exs[i][k]],
                                outputs |-> [k \in Range(outKeys) |-> exs[i][k]]]],
              err |-> NoError]

\* SchematizedTextCorpus.load_from_file on the examples file of the
\* directory d: examples.yaml if it is there, else examples.tsv.
ExamplesCorpus(d) ==
    IF d.examples_yaml # None THEN LoadFromYaml(d.examples_yaml[1])
    ELSE LoadFromTsv(d.examples_tsv[1])

\* Mutant of MaxSharedKeys: any shared key is refused
\* (`len(...) > 0`).
NoSharedKeys == 1 - 1

\* The number of keys the two templates may share.
MaxSharedKeys == 1

\* TextCompletionsMappingDefinition.load_from_directory(dir_path)
LoadFromDirectory(d) ==
    LET it == Load(d.input_template)
        ot == Load(d.output_template)
    IN  IF ~it.ok THEN DefinitionError(it.err)
        ELSE IF ~ot.ok THEN DefinitionError(ot.err)
        ELSE IF Cardinality(KeySet(it) \cap KeySet(ot)) > MaxSharedKeys
             THEN DefinitionError(ValueError(<<"KeyInBothTemplates">>))
             ELSE IF d.examples_yaml = None /\ d.examples_tsv = None
                  THEN DefinitionError([type |-> "FileNotFoundError", msg |-> <<>>])
                  ELSE IF ~ExamplesCorpus(d).ok
                       THEN DefinitionError(ExamplesCorpus(d).err)
                       ELSE LET ex == LoadExamples(ExamplesCorpus(d).corpus.examples,
                                                   it.keys, ot.keys)
                            IN  IF ~ex.ok THEN DefinitionError(ex.err)
                                ELSE [ok |-> TRUE, guidelines |-> Strip(d.guidelines),
                                      input_template |-> it, output_template |-> ot,
                                      examples |-> ex.examples, err |-> NoError]

\* The messages of the examples from the i-th on: a user turn and an
\* assistant turn each.
RECURSIVE ExampleMessages(_, _)
ExampleMessages(d, i) ==
    IF i > Len(d.examples) THEN <<>>
    ELSE <<<<"user", Fill(d.input_template, d.examples[i].inputs).str>>,
           <<"assistant", Fill(d.output_template, d.examples[i].outputs).str>>>>
         \o ExampleMessages(d, i + 1)

\* Mutant of LoadGptPromptPrefix: the examples come before the guidelines.
LoadGptPromptPrefixGuidelinesLast(d) ==
    ExampleMessages(d, 1) \o <<<<"system", d.guidelines>>>>

\* ChatGPTTextCompletionsMapping._load_gpt_prompt_prefix(definition)
LoadGptPromptPrefix(d) == <<<<"system", d.guidelines>>>> \o ExampleMessages(d, 1)

(***************************************************************************)
(* ChatGPTTextCompletionsMapping.map                                       *)
(***************************************************************************)
NoOutcome ==
    [ok |-> FALSE, raw |-> <<>>, parsed |-> <<>>, success |-> FALSE,
     error_message |-> None, err |-> NoError]

\* map left by an exception e.
Raised(e) == [NoOutcome EXCEPT !.err = e]

\* TextCompletionsMappingOutput(raw, parsed, success, error_message)
Output(r, p, s, m) ==
    [ok |-> TRUE, raw |-> r, parsed |-> p, success |-> s, error_message |-> m,
     err |-> NoError]

\* Mutant of MapOutcome: an empty default counts as no default
\* (`if not parse_error_default`).
MapOutcomeFalsyDefault(def, c, d) ==
    LET p == Parse(def.output_template, c)
    IN  IF p.ok THEN Output(c, p.dict, TRUE, None)
        ELSE IF d = None \/ d = Some(<<>>) THEN Raised(p.err)
             ELSE Output(c, [k \in KeySet(def.output_template) |-> d[1]],
                         FALSE, Some(p.err.msg))

\* Mutant of MapOutcome: raw is the trimmed completion.
MapOutcomeTrimmedRaw(def, c, d) ==
    LET p == Parse(def.output_template, c)
    IN  IF p.ok THEN Output(Strip(c), p.dict, TRUE, None)
        ELSE IF d = None THEN Raised(p.err)
             ELSE Output(c, [k \in KeySet(def.output_template) |-> d[1]],
                         FALSE, Some(p.err.msg))

\* The try statement of map: what map returns, or raises, for the
\* completion c under the parse_error_default d.
MapOutcome(def, c, d) ==
    LET p == Parse(def.output_template, c)
    IN  IF p.ok THEN Output(c, p.dict, TRUE, None)
        ELSE IF d = None THEN Raised(p.err)
             ELSE Output(c, [k \in KeySet(def.output_template) |-> d[1]],
                         FALSE, Some(p.err.msg))

\* What gpt_client.run raises when the service fails.
ClientError == [type |-> "ClientError", msg |-> <<>>]

\* Mutant of MapClientFailure: with a default the failure of the client is
\* turned into a failed output, like a parse error.
MapClientFailureAbsorbed(def, d) ==
    IF d = None THEN Raised(ClientError)
    ELSE Output(<<>>, [k \in KeySet(def.output_template) |-> d[1]], FALSE, Some(<<>>))

\* The call of gpt_client.run in map stands outside the try statement: what
\* map does when the call raises, under the parse_error_default d.
MapClientFailure(def, d) == Raised(ClientError)

(***************************************************************************)
(* Inputs of the mapping engine.                                           *)
(***************************************************************************)
InputRaws ==
    {<<"{", "a", "}">>, <<"{", "a", "}", ",", "{", "b", "}">>}

OutputRaws ==
    {<<"{", "b", "}">>, <<",", "{", "b", "}">>,
     <<"{", "b", "}", ",", "{", "c", "}">>, <<"{", "a", "}", ",", "{", "b", "}">>,
     <<"{", "{", "b", "}">>, <<"{", "a", "}", "{", "b", "}">>}


\* The mappings of an examples.yaml: one with the three fields, one without
\* the field c.
YamlRow == <<<<<<"a">>, <<"a">>>>, <<<<"b">>, <<",">>>>, <<<<"c">>, <<",">>>>>>
YamlShortRow == <<<<<<"a">>, <<",">>>>, <<<<"b">>, <<"a">>>>>>

\* examples.yaml: missing, the empty list, one mapping, a mapping followed
\* by one or preceded by one with fewer fields.
YamlFiles ==
    {None, Some(<<>>), Some(<<YamlRow>>), Some(<<YamlRow, YamlShortRow>>),
     Some(<<YamlShortRow, YamlRow>>)}

\* examples.tsv: missing, the header line alone, the header and one line.
TsvHeader == <<<<"a">>, <<"b">>, <<"c">>>>
TsvFiles ==
    {None, Some([header |-> TsvHeader, rows |-> <<>>]),
     Some([header |-> TsvHeader, rows |-> <<<<<<",">>, <<"a">>, <<"a">>>>>>])}

Directories ==
    [guidelines : {<<"g", " ">>}, input_template : InputRaws,
     output_template : OutputRaws, examples_yaml : YamlFiles, examples_tsv : TsvFiles]

RecordFields == {<<"a">>, <<"b">>}
RecordVals == {<<"a">>, <<",">>}
Records == UNION {[D -> RecordVals] : D \in SUBSET RecordFields}

Defaults == {None, Some(<<>>), Some(<<"a">>)}

Completions == Texts

(***************************************************************************)
(* The mapping engine: load a mapping from a directory, then map records   *)
(* one at a time, the completion client answering or failing.              *)
(***************************************************************************)
MappingInit ==
    /\ mpc = "init"
    /\ dir \in Directories
    /\ defn = NoDefinition
    /\ prefix = <<>>
    /\ input = <<>>
    /\ dflt = None
    /\ prompt = <<>>
    /\ completion = None
    /\ outcome = NoOutcome
    /\ calls = 0
    \* the template driver is not part of this specification
    /\ pc = "off"
    /\ raw = <<>>
    /\ tpl = NoTemplate
    /\ values = <<>>
    /\ filled = NoFill
    /\ text = <<>>
    /\ parsed = NoParse
    \* map_corpus and join are not part of this specification
    /\ cpc = "off"
    /\ corpus = <<>>
    /\ opts = <<>>
    /\ idx = 0
    /\ outs = <<>>
    /\ log = <<>>
    /\ other = <<>>
    /\ result = <<>>

\* ChatGPTTextCompletionsMapping.load_from_directory(gpt_client, dir_path)
LoadMapping ==
    /\ mpc = "init"
    /\ LET d == LoadFromDirectory(dir)
       IN  /\ defn' = d
           /\ prefix' = IF d.ok THEN LoadGptPromptPrefix(d) ELSE <<>>
           /\ mpc' = IF d.ok THEN "idle" ELSE "failed"
    /\ UNCHANGED <<dir, input, dflt, prompt, completion, outcome, calls>>
    /\ UNCHANGED tvars
    /\ UNCHANGED cvars

\* map(input, parse_error_default) up to the call of gpt_client.run: the
\* input template is filled and the prompt built; a missing key raises.
MapStart ==
    /\ mpc \in {"idle", "done"}
    /\ \E rec \in Records, d \in Defaults :
          LET f == Fill(defn.input_template, rec)
          IN  /\ input' = rec
              /\ dflt' = d
              /\ completion' = None
              /\ IF f.ok
                 THEN /\ prompt' = Append(prefix, <<"user", f.str>>)
                      /\ outcome' = NoOutcome
                      /\ calls' = 1
                      /\ mpc' = "calling"
                 ELSE /\ prompt' = <<>>
                      /\ outcome' = Raised(f.err)
                      /\ calls' = 0
                      /\ mpc' = "done"
    /\ UNCHANGED <<dir, defn, prefix>>
    /\ UNCHANGED tvars
    /\ UNCHANGED cvars

\* gpt_client.run returns a completion: map parses it and returns or raises.
ClientReturns ==
    /\ mpc = "calling"
    /\ \E c \in Completions :
          /\ completion' = Some(c)
          /\ outcome' = MapOutcome(defn, c, dflt)
    /\ mpc' = "done"
    /\ UNCHANGED <<dir, defn, prefix, input, dflt, prompt, calls>>
    /\ UNCHANGED tvars
    /\ UNCHANGED cvars

\* gpt_client.run raises: map does not catch it.
ClientRaises ==
    /\ mpc = "calling"
    /\ completion' = None
    /\ outcome' = MapClientFailure(defn, dflt)
    /\ mpc' = "done"
    /\ UNCHANGED <<dir, defn, prefix, input, dflt, prompt, calls>>
    /\ UNCHANGED tvars
    /\ UNCHANGED cvars

MappingNext == LoadMapping \/ MapStart \/ ClientReturns \/ ClientRaises

MappingSpec == MappingInit /\ [][MappingNext]_vars

(***************************************************************************)
(* C9. What map does with a completion that does not parse.                *)
(***************************************************************************)
\* C9: when the completion fails output_template.parse, map with a default
\* returns success = FALSE, raw = the completion, error_message = the parse
\* error's text and parsed = every key of the output template's keys mapped
\* to the default; without a default the parse error is raised and nothing
\* returned.
C9_ParseFailurePolicy ==
    (/\ mpc = "done"
     /\ completion # None
     /\ ~Parse(defn.output_template, completion[1]).ok) =>
        LET e == Parse(defn.output_template, completion[1]).err
        IN  IF dflt # None
            THEN /\ outcome.ok
                 /\ outcome.success = FALSE
                 /\ outcome.raw = completion[1]
                 /\ outcome.error_message = Some(e.msg)
                 /\ DOMAIN outcome.parsed = KeySet(defn.output_template)
                 /\ \A k \in DOMAIN outcome.parsed : outcome.parsed[k] = dflt[1]
            ELSE /\ ~outcome.ok
                 /\ outcome.err = e
                 /\ outcome.raw = <<>> /\ outcome.parsed = <<>>

C9_Witness ==
    /\ mpc = "done"
    /\ completion # None
    /\ dflt = Some(<<>>)
    /\ Len(defn.output_template.keys) = 2
    /\ outcome.ok
    /\ ~outcome.success
    /\ outcome.error_message[1][1] = "ExpectedIn"
    /\ Cardinality(DOMAIN outcome.parsed) = 2

(***************************************************************************)
(* C10. What map does with a completion that parses.                       *)
(***************************************************************************)
\* C10: when output_template.parse accepts the completion, map returns
\* success = TRUE, error_message = None, raw = the completion exactly as the
\* client returned it and parsed = the parse of the completion, with or
\* without a default.
C10_SuccessOutcome ==
    (/\ mpc = "done"
     /\ completion # None
     /\ Parse(defn.output_template, completion[1]).ok) =>
        /\ outcome.ok
        /\ outcome.success = TRUE
        /\ outcome.error_message = None
        /\ outcome.raw = completion[1]
        /\ outcome.parsed = Parse(defn.output_template, completion[1]).dict

C10_Witness ==
    /\ mpc = "done"
    /\ completion # None
    /\ dflt = Some(<<"a">>)
    /\ outcome.ok
    /\ outcome.success
    /\ ~IsTrimmed(outcome.raw)
    /\ Cardinality(DOMAIN outcome.parsed) = 2
    /\ \A k \in DOMAIN outcome.parsed : outcome.parsed[k] # dflt[1]

(***************************************************************************)
(* C11. The prompt handed to the completion client.                        *)
(***************************************************************************)
\* C11: the prompt of every map call that reaches the client is one system
\* turn with the guidelines, then for every example of the definition, in
\* order, a user turn with the input template filled by the example's inputs
\* and an assistant turn with the output template filled by its outputs,
\* then one user turn with the input template filled by the record; the
\* part before the last turn is the prefix built at load, the same for
\* every record and after every map call.
C11_PromptLayout ==
    (mpc \in {"idle", "calling", "done"}) =>
        LET n == Len(defn.examples)
        IN  /\ Len(prefix) = 2 * n + 1
            /\ prefix[1] = <<"system", defn.guidelines>>
            /\ defn.guidelines = Strip(dir.guidelines)
            /\ \A i \in 1..n :
                  /\ prefix[2 * i] =
                        <<"user", Fill(defn.input_template, defn.examples[i].inputs).str>>
                  /\ prefix[2 * i + 1] =
                        <<"assistant", Fill(defn.output_template, defn.examples[i].outputs).str>>
            /\ (mpc = "calling") =>
                  /\ Len(prompt) = 2 * n + 2
                  /\ SubSeq(prompt, 1, 2 * n + 1) = prefix
                  /\ Fill(defn.input_template, input).ok
                  /\ prompt[2 * n + 2] = <<"user", Fill(defn.input_template, input).str>>

C11_Witness ==
    /\ mpc = "calling"
    /\ Len(defn.examples) = 1
    /\ Len(defn.input_template.keys) = 2
    /\ Len(prompt) = 4
    /\ prompt[1][1] = "system"
    /\ prompt[4] = <<"user", <<",", ",", "a">>>>
    /\ prompt[2] # prompt[4]

(***************************************************************************)
(* C12. One call of the client per map call, and no recovery from its      *)
(* failure.                                                                *)
(***************************************************************************)
\* C12: a map call invokes the client at most once; when the client fails
\* the failure itself is raised, there is no second call and nothing is
\* returned, with a default as without.
C12_SingleAttempt ==
    /\ calls \in {0, 1}
    /\ (mpc = "calling") => calls = 1
    /\ (mpc = "done" /\ calls = 1 /\ completion = None) =>
          /\ ~outcome.ok
          /\ outcome.err = ClientError
          /\ outcome.raw = <<>>
          /\ outcome.parsed = <<>>

C12_Witness ==
    /\ mpc = "done"
    /\ calls = 1
    /\ completion = None
    /\ dflt # None
    /\ ~outcome.ok
    /\ outcome.err.type = "ClientError"

(***************************************************************************)
(* C17. The keys the two templates of a definition may share.              *)
(***************************************************************************)
SharedKeys(d) == KeySet(Load(d.input_template)) \cap KeySet(Load(d.output_template))

\* The directory has an examples file.
HasExamplesFile(d) == d.examples_yaml # None \/ d.examples_tsv # None

\* The records written in the examples file the code reads: the mappings of
\* examples.yaml if it is there, else the lines of examples.tsv under the
\* header.
FileRecords(d) ==
    IF d.examples_yaml # None
    THEN [i \in 1..Len(d.examples_yaml[1]) |-> DictOf(d.examples_yaml[1][i])]
    ELSE LoadFromTsv(d.examples_tsv[1]).corpus.examples

\* There is an examples file and every record written in it has the keys of
\* both templates.
ExamplesSupplied(d) ==
    /\ HasExamplesFile(d)
    /\ \A i \in 1..Len(FileRecords(d)) :
          (KeySet(Load(d.input_template)) \cup KeySet(Load(d.output_template)))
              \subseteq DOMAIN FileRecords(d)[i]

\* The examples file is read without error and every example read from it
\* has the keys of both templates.
ExamplesRead(d) ==
    /\ HasExamplesFile(d)
    /\ ExamplesCorpus(d).ok
    /\ \A i \in 1..Len(ExamplesCorpus(d).corpus.examples) :
          (KeySet(Load(d.input_template)) \cup KeySet(Load(d.output_template)))
              \subseteq DOMAIN ExamplesCorpus(d).corpus.examples[i]

\* C17: with two valid templates, loading a definition raises the error of
\* keys in both templates exactly when the templates share more than one
\* key; with no or one shared key and an examples file whose records have
\* the templates' keys it loads, and a loaded definition's templates share
\* at most one key.
C17_SharedKeyLimit ==
    (/\ mpc \in {"idle", "calling", "done", "failed"}
     /\ Load(dir.input_template).ok
     /\ Load(dir.output_template).ok) =>
        /\ (defn.err = ValueError(<<"KeyInBothTemplates">>)) <=> (Cardinality(SharedKeys(dir)) > 1)
        /\ (Cardinality(SharedKeys(dir)) <= 1 /\ ExamplesSupplied(dir)) => defn.ok
        /\ defn.ok =>
              Cardinality(KeySet(defn.input_template) \cap KeySet(defn.output_template)) <= 1
        /\ (mpc = "failed") <=> ~defn.ok

\* What holds of load_from_directory: the error of keys in both templates is
\* raised exactly when more than one key is shared, and with no or one
\* shared key the definition is loaded exactly when the examples file is
\* read without error and each example read has the keys of both templates.
C17_SharedKeyLimitWhenRead ==
    (/\ mpc \in {"idle", "calling", "done", "failed"}
     /\ Load(dir.input_template).ok
     /\ Load(dir.output_template).ok) =>
        /\ (defn.err = ValueError(<<"KeyInBothTemplates">>)) <=> (Cardinality(SharedKeys(dir)) > 1)
        /\ defn.ok <=> (Cardinality(SharedKeys(dir)) <= 1 /\ ExamplesRead(dir))
        /\ defn.ok =>
              Cardinality(KeySet(defn.input_template) \cap KeySet(defn.output_template)) <= 1
        /\ (mpc = "failed") <=> ~defn.ok

\* A directory with an examples file whose records have the templates' keys
\* and templates of no or one shared key, that is not loaded.
C17_NotLoaded ==
    /\ mpc = "failed"
    /\ Load(dir.input_template).ok
    /\ Load(dir.output_template).ok
    /\ Cardinality(SharedKeys(dir)) <= 1
    /\ ExamplesSupplied(dir)
    /\ defn.err.type \in {"IndexError", "KeyError"}

C17_Witness ==
    /\ mpc = "failed"
    /\ Cardinality(SharedKeys(dir)) = 2
    /\ HasExamplesFile(dir)
    /\ defn.err = ValueError(<<"KeyInBothTemplates">>)

\* A definition whose templates share exactly one key is loaded.
C17_WitnessOneShared ==
    /\ mpc = "idle"
    /\ defn.ok
    /\ Cardinality(SharedKeys(dir)) = 1

(***************************************************************************)
(* C18. A key at several placeholders.                                     *)
(***************************************************************************)
\* The positions, among the placeholders in order, where the key k stands.
PlaceholdersOf(t, k) ==
    {j \in 1..Len(KeyPositionSeq(t)) : t.parts[KeyPositionSeq(t)[j]].key[1] = k}

\* C18: when parse succeeds on a template in which a key stands at several
\* placeholders, the value returned for every key is the text extracted at
\* the last placeholder of that key.
C18_LastWriteWins ==
    (pc \in {"parsed", "roundtrip"} /\ parsed.ok) =>
        LET n == Cardinality(KeyPositions(tpl))
            vs == [j \in 1..n |-> parsed.writes[j][2]]
        IN  /\ Len(parsed.writes) = n
            /\ Extracts(tpl, AfterLeading(tpl, text), vs)
            /\ DOMAIN parsed.dict = PartKeySet(tpl)
            /\ \A k \in PartKeySet(tpl) :
                  parsed.dict[k] = vs[Max(PlaceholdersOf(tpl, k))]

C18_Witness ==
    /\ pc = "parsed"
    /\ parsed.ok
    /\ \E k \in PartKeySet(tpl) :
          /\ Cardinality(PlaceholdersOf(tpl, k)) = 2
          /\ parsed.writes[Min(PlaceholdersOf(tpl, k))][2] # parsed.dict[k]
          /\ parsed.writes[Max(PlaceholdersOf(tpl, k))][2] = parsed.dict[k]

(***************************************************************************)
(* C19. The input template is filled before the client is called.          *)
(***************************************************************************)
\* C19: a map call on a record without one of the input template's keys
\* raises the missing-key error of fill and does not invoke the client; the
\* client is only ever called on a record that has every key.
C19_FillBeforeCall ==
    /\ (mpc = "calling") => AllSupplied(defn.input_template, input)
    /\ (mpc = "done" /\ ~AllSupplied(defn.input_template, input)) =>
          /\ calls = 0
          /\ prompt = <<>>
          /\ completion = None
          /\ ~outcome.ok
          /\ outcome.err = Fill(defn.input_template, input).err
          /\ outcome.err.msg[1] = "KeyMissing"
          /\ outcome.err.msg[2] \in KeySet(defn.input_template) \ DOMAIN input

C19_Witness ==
    /\ mpc = "done"
    /\ DOMAIN input = {<<"a">>}
    /\ Len(defn.input_template.keys) = 2
    /\ calls = 0
    /\ ~outcome.ok
    /\ outcome.err.msg[1] = "KeyMissing"
    /\ outcome.err.msg[2] = <<"b">>

(***************************************************************************)
(* TextCompletionsMapping.map_batch and map_corpus                         *)
(***************************************************************************)
\* str(bool) and str(Optional[str])
StrBool(b) == IF b THEN <<"T", "r", "u", "e">> ELSE <<"F", "a", "l", "s", "e">>
StrOptional(m) == IF m = None THEN <<"N", "o", "n", "e">> ELSE m[1]

\* extra_fields of map_corpus
ExtraFields(o) == {o.error_message_field, o.success_field, o.raw_completion_field}

\* Mutant of DebugCollision: only the output template's keys are looked at.
DebugCollisionOutputOnly(def, o) ==
    /\ o.include_debug_fields
    /\ ExtraFields(o) \cap KeySet(def.output_template) # {}

\* The condition under which map_corpus refuses the debug field names.
DebugCollision(def, o) ==
    /\ o.include_debug_fields
    /\ \/ ExtraFields(o) \cap KeySet(def.input_template) # {}
       \/ ExtraFields(o) \cap KeySet(def.output_template) # {}

\* fields of output_corpus
OutputFields(def, o) ==
    IF o.include_debug_fields
    THEN def.output_template.keys
         \o <<o.success_field, o.error_message_field, o.raw_completion_field>>
    ELSE def.output_template.keys

\* Mutant of MapCorpusRefuses: the fields of the corpus are compared with
\* the fields of output_corpus on entry.
MapCorpusRefusesCommonFields(c, def, o) ==
    \/ DebugCollision(def, o)
    \/ /\ o.include_inputs_in_output
       /\ Range(c.fields) \cap Range(OutputFields(def, o)) # {}

\* What map_corpus tests of its arguments before map_batch is called: the
\* debug field names against the keys of the templates, and nothing of the
\* corpus c.
MapCorpusRefuses(c, def, o) == DebugCollision(def, o)

\* The dict of the debug fields of the output out: of equal names the one
\* written last in the dict display stands.
DebugExample(out, o) ==
    [k \in ExtraFields(o) |->
        IF k = o.raw_completion_field THEN out.raw
        ELSE IF k = o.error_message_field THEN StrOptional(out.error_message)
        ELSE StrBool(out.success)]

\* The example of output_corpus made from the output out.
OutputExample(out, o) ==
    IF o.include_debug_fields THEN Concat(out.parsed, DebugExample(out, o))
    ELSE out.parsed

\* output_corpus of map_corpus for the list os map_batch returned.
OutputCorpus(def, o, os) ==
    Corpus(OutputFields(def, o), [i \in 1..Len(os) |-> OutputExample(os[i], o)])

\* What map_corpus returns, or raises, once map_batch has returned os.
MapCorpusResult(c, def, o, os) ==
    IF o.include_inputs_in_output THEN Join(c, OutputCorpus(def, o, os))
    ELSE Returned(OutputCorpus(def, o, os))

\* Mutant of MapBatchStep: the newest output is put first.
MapBatchStepPrepends(os, out) ==
    IF out.ok THEN [ok |-> TRUE, list |-> <<out>> \o os, err |-> NoError]
    ELSE [ok |-> FALSE, list |-> <<>>, err |-> out.err]

\* Mutant of MapBatchStep: a record whose map call raised is passed over.
MapBatchStepSkips(os, out) ==
    [ok |-> TRUE, list |-> IF out.ok THEN Append(os, out) ELSE os, err |-> NoError]

\* One round of the list comprehension of map_batch: the list after the
\* map call of the next record returned out, or the exception it raised,
\* which leaves map_batch with no list.
MapBatchStep(os, out) ==
    IF out.ok THEN [ok |-> TRUE, list |-> Append(os, out), err |-> NoError]
    ELSE [ok |-> FALSE, list |-> <<>>, err |-> out.err]

(***************************************************************************)
(* The corpora, options and completions map_corpus and join are run on.    *)
(***************************************************************************)
\* The mapping directories that load, with an examples.tsv of the header
\* line alone.
CorpusDirectories ==
    {d \in Directories :
        /\ d.examples_yaml = None
        /\ d.examples_tsv = Some([header |-> TsvHeader, rows |-> <<>>])
        /\ LoadFromDirectory(d).ok}

CorpusFieldLists ==
    {<<<<"a">>>>, <<<<"a">>, <<"b">>>>, <<<<"b">>>>, <<<<"a">>, <<"c">>>>}

\* The examples of a corpus of the fields fl: the first field takes the
\* values of RecordVals, the others are ",".
CorpusExamples(fl) ==
    {[k \in Range(fl) |-> IF k = fl[1] THEN v ELSE <<",">>] : v \in RecordVals}

\* The corpora as load_from_file builds them: every example has exactly the
\* fields of the corpus.
Corpora ==
    UNION {{Corpus(fl, ex) : ex \in UNION {[1..n -> CorpusExamples(fl)] : n \in 0..MaxRecords}} :
              fl \in CorpusFieldLists}

\* The default values of the debug field names of map_corpus.
SuccessField ==
    <<"C", "o", "m", "p", "l", "e", "t", "i", "o", "n", " ", "S", "u", "c", "c", "e", "s", "s">>
ErrorMessageField == <<"E", "r", "r", "o", "r", " ", "M", "e", "s", "s", "a", "g", "e">>
RawCompletionField == <<"C", "o", "m", "p", "l", "e", "t", "i", "o", "n">>

\* The debug field names: the defaults, each of the three in turn given the
\* name of a template key, and two of them given one name.
DebugNames ==
    {<<SuccessField, ErrorMessageField, RawCompletionField>>,
     <<<<"x">>, <<"x">>, RawCompletionField>>,
     <<<<"a">>, ErrorMessageField, RawCompletionField>>,
     <<SuccessField, <<"b">>, RawCompletionField>>,
     <<SuccessField, ErrorMessageField, <<"c">>>>}

Options ==
    {[include_inputs_in_output |-> i, include_debug_fields |-> g,
      success_field |-> n[1], error_message_field |-> n[2], raw_completion_field |-> n[3]] :
        i \in BOOLEAN, g \in BOOLEAN, n \in DebugNames}

CorpusDefaults == {None, Some(<<"a">>)}

CorpusCompletions == {<<"a">>, <<",", "a">>}

(***************************************************************************)
(* map_corpus: the debug field names are validated, map_batch maps the     *)
(* examples of the corpus one after the other, the outputs are made into   *)
(* output_corpus and joined to the corpus.                                 *)
(***************************************************************************)
CorpusInit ==
    /\ cpc = "ready"
    /\ dir \in CorpusDirectories
    /\ defn = LoadFromDirectory(dir)
    /\ prefix = LoadGptPromptPrefix(LoadFromDirectory(dir))
    /\ mpc = "idle"
    /\ input = <<>>
    /\ dflt = None
    /\ prompt = <<>>
    /\ completion = None
    /\ outcome = NoOutcome
    /\ calls = 0
    /\ corpus = Corpus(<<>>, <<>>)
    /\ opts = <<>>
    /\ idx = 0
    /\ outs = <<>>
    /\ log = <<>>
    /\ other = None
    /\ result = NoResult
    \* the template driver is not part of this specification
    /\ pc = "off"
    /\ raw = <<>>
    /\ tpl = NoTemplate
    /\ values = <<>>
    /\ filled = NoFill
    /\ text = <<>>
    /\ parsed = NoParse

\* map_batch has returned the list os: output_corpus is built and
\* map_corpus returns it, or its join to the corpus, or raises.
MapCorpusFinish(c, o, os) ==
    /\ other' = Some(OutputCorpus(defn, o, os))
    /\ result' = MapCorpusResult(c, defn, o, os)
    /\ cpc' = IF MapCorpusResult(c, defn, o, os).ok THEN "returned" ELSE "raised"

\* map_corpus(corpus, parse_error_default, include_inputs_in_output,
\* include_debug_fields, error_message_field, success_field,
\* raw_completion_field) up to the first map call of map_batch.
MapCorpus ==
    /\ cpc = "ready"
    /\ \E c \in Corpora, o \in Options, d \in CorpusDefaults :
          /\ corpus' = c
          /\ opts' = o
          /\ dflt' = d
          /\ outs' = <<>>
          /\ log' = <<>>
          /\ IF MapCorpusRefuses(c, defn, o)
             THEN /\ result' = CorpusError(ValueError(<<"DebugFieldInTemplates">>))
                  /\ cpc' = "raised"
                  /\ other' = None
                  /\ idx' = 0
             ELSE IF Len(c.examples) = 0
                  THEN /\ MapCorpusFinish(c, o, <<>>)
                       /\ idx' = 0
                  ELSE /\ result' = NoResult
                       /\ cpc' = "mapping"
                       /\ other' = None
                       /\ idx' = 1
    /\ mpc' = "idle"
    /\ input' = <<>>
    /\ prompt' = <<>>
    /\ completion' = None
    /\ outcome' = NoOutcome
    /\ calls' = 0
    /\ UNCHANGED <<dir, defn, prefix>>
    /\ UNCHANGED tvars

\* The map call of the record idx has returned or raised out: map_batch
\* goes to the next record, returns its list, or is left by the exception.
MapBatchNext(out) ==
    LET step == MapBatchStep(outs, out)
    IN  /\ outs' = step.list
        /\ IF ~step.ok
           THEN /\ result' = CorpusError(step.err)
                /\ cpc' = "raised"
                /\ UNCHANGED <<idx, other>>
           ELSE IF idx = Len(corpus.examples)
                THEN /\ MapCorpusFinish(corpus, opts, step.list)
                     /\ UNCHANGED idx
                ELSE /\ idx' = idx + 1
                     /\ UNCHANGED <<cpc, other, result>>

\* map of the record idx up to the call of gpt_client.run.
BatchMapStart ==
    /\ cpc = "mapping"
    /\ mpc \in {"idle", "done"}
    /\ LET rec == corpus.examples[idx]
           f == Fill(defn.input_template, rec)
       IN  /\ input' = rec
           /\ completion' = None
           /\ IF f.ok
              THEN /\ prompt' = Append(prefix, <<"user", f.str>>)
                   /\ outcome' = NoOutcome
                   /\ calls' = 1
                   /\ mpc' = "calling"
                   /\ log' = Append(log, [index |-> idx,
                                          prompt |-> Append(prefix, <<"user", f.str>>)])
                   /\ UNCHANGED <<cpc, idx, outs, other, result>>
              ELSE /\ prompt' = <<>>
                   /\ outcome' = Raised(f.err)
                   /\ calls' = 0
                   /\ mpc' = "done"
                   /\ MapBatchNext(Raised(f.err))
                   /\ UNCHANGED log
    /\ UNCHANGED <<dir, defn, prefix, dflt, corpus, opts>>
    /\ UNCHANGED tvars

\* gpt_client.run returns a completion to the map call of the record idx.
BatchClientReturns ==
    /\ cpc = "mapping"
    /\ mpc = "calling"
    /\ \E c \in CorpusCompletions :
          /\ completion' = Some(c)
          /\ outcome' = MapOutcome(defn, c, dflt)
          /\ MapBatchNext(MapOutcome(defn, c, dflt))
    /\ mpc' = "done"
    /\ UNCHANGED <<dir, defn, prefix, input, dflt, prompt, calls, corpus, opts, log>>
    /\ UNCHANGED tvars

\* gpt_client.run raises in the map call of the record idx.
BatchClientRaises ==
    /\ cpc = "mapping"
    /\ mpc = "calling"
    /\ completion' = None
    /\ outcome' = MapClientFailure(defn, dflt)
    /\ MapBatchNext(MapClientFailure(defn, dflt))
    /\ mpc' = "done"
    /\ UNCHANGED <<dir, defn, prefix, input, dflt, prompt, calls, corpus, opts, log>>
    /\ UNCHANGED tvars

CorpusNext == MapCorpus \/ BatchMapStart \/ BatchClientReturns \/ BatchClientRaises

CorpusSpec == CorpusInit /\ [][CorpusNext]_vars

(***************************************************************************)
(* join on two corpora.                                                    *)
(***************************************************************************)
JoinInit ==
    /\ cpc = "tables"
    /\ corpus \in Corpora
    /\ other \in {Some(c) : c \in Corpora}
    /\ result = NoResult
    /\ opts = <<>>
    /\ idx = 0
    /\ outs = <<>>
    /\ log = <<>>
    \* the template driver and the mapping engine are not part of this
    \* specification
    /\ pc = "off"
    /\ raw = <<>>
    /\ tpl = NoTemplate
    /\ values = <<>>
    /\ filled = NoFill
    /\ text = <<>>
    /\ parsed = NoParse
    /\ mpc = "off"
    /\ dir = <<>>
    /\ defn = <<>>
    /\ prefix = <<>>
    /\ input = <<>>
    /\ dflt = None
    /\ prompt = <<>>
    /\ completion = None
    /\ outcome = <<>>
    /\ calls = 0

\* corpus.join(other)
JoinCorpora ==
    /\ cpc = "tables"
    /\ result' = Join(corpus, other[1])
    /\ cpc' = "joined"
    /\ UNCHANGED <<corpus, other, opts, idx, outs, log>>
    /\ UNCHANGED tvars
    /\ UNCHANGED mvars

JoinNext == JoinCorpora

JoinSpec == JoinInit /\ [][JoinNext]_vars

(***************************************************************************)
(* C13. map_batch maps the records one after the other, in order.          *)
(***************************************************************************)
\* map_batch has returned its list.
BatchReturned == cpc \in {"returned", "raised"} /\ other # None

\* The prompt map builds for the j-th example of the corpus.
PromptOf(j) ==
    Append(prefix, <<"user", Fill(defn.input_template, corpus.examples[j]).str>>)

\* The client calls made so far are those of the first records, in order,
\* one each; the call of a record is made when the outputs of all the
\* records before it are in the list; the list map_batch returns has one
\* output per record.
BatchOrdered ==
    (cpc \in {"mapping", "returned", "raised"}) =>
        /\ Len(log) <= Len(corpus.examples)
        /\ \A j \in 1..Len(log) : log[j].index = j /\ log[j].prompt = PromptOf(j)
        /\ (cpc = "mapping") =>
              /\ Len(outs) = idx - 1
              /\ Len(log) = IF mpc = "calling" THEN idx ELSE idx - 1
        /\ BatchReturned =>
              /\ Len(outs) = Len(corpus.examples)
              /\ Len(log) = Len(corpus.examples)

\* A step that calls the client does so for the record after the last
\* output, and a step that lengthens the list appends the output map made
\* of the completion returned to the call of the record at that position.
BatchStepOrdered ==
    /\ (log' # log /\ cpc = "mapping") =>
          /\ log' = Append(log, [index |-> Len(outs) + 1, prompt |-> prompt'])
          /\ input' = corpus.examples[Len(outs) + 1]
          /\ outs' = outs
    /\ (Len(outs') > Len(outs)) =>
          /\ outs' = Append(outs, outcome')
          /\ completion' # None
          /\ outcome' = MapOutcome(defn, completion'[1], dflt)
          /\ input = corpus.examples[Len(outs')]
          /\ prompt = log[Len(outs')].prompt
          /\ Len(log) = Len(outs')

\* C13: map_batch processes the records in input order, one at a time: the
\* client call of a record begins only when the map calls of all earlier
\* records have returned, and the list it returns has the length of the
\* input, its i-th output made from the i-th record.
C13_BatchInOrder == []BatchOrdered /\ [][BatchStepOrdered]_vars

C13_Witness ==
    /\ cpc = "returned"
    /\ Len(corpus.examples) = 2
    /\ corpus.examples[1] # corpus.examples[2]
    /\ Len(outs) = 2
    /\ outs[1].raw # outs[2].raw
    /\ Len(log) = 2
    /\ log[1].prompt # log[2].prompt

(***************************************************************************)
(* C14. A batch stops at the first failure that is not recovered.          *)
(***************************************************************************)
\* map_corpus was left by an exception of a map call.
RaisedInBatch == cpc = "raised" /\ other = None /\ idx > 0

\* After a map call raised, nothing is returned, no record after the one
\* that failed has reached the client, and the failure is a parse error
\* without a default, a missing input key or a failure of the client.  With
\* a default, a returned list has a failed output exactly at the records
\* whose completion does not parse.
BatchHalted ==
    /\ RaisedInBatch =>
          /\ ~result.ok
          /\ result.corpus = Corpus(<<>>, <<>>)
          /\ outs = <<>>
          /\ ~outcome.ok
          /\ result.err = outcome.err
          /\ Len(log) = IF calls = 1 THEN idx ELSE idx - 1
          /\ \/ /\ calls = 0
                /\ ~AllSupplied(defn.input_template, input)
                /\ outcome.err = Fill(defn.input_template, input).err
             \/ /\ calls = 1
                /\ completion = None
                /\ outcome.err = ClientError
             \/ /\ calls = 1
                /\ completion # None
                /\ dflt = None
                /\ outcome.err = Parse(defn.output_template, completion[1]).err
    /\ (BatchReturned /\ dflt # None) =>
          \A i \in 1..Len(outs) :
              LET p == Parse(defn.output_template, outs[i].raw)
              IN  /\ outs[i].success = p.ok
                  /\ ~p.ok => outs[i].error_message = Some(p.err.msg)

\* A map call that raises ends map_corpus with its exception, and nothing
\* is done after map_corpus has ended; with a default, a completion that
\* does not parse gives a failed output and the batch goes on.
BatchStepHalts ==
    /\ cpc \notin {"returned", "raised"}
    /\ (cpc = "mapping" /\ mpc' = "done" /\ ~outcome'.ok) =>
          /\ cpc' = "raised"
          /\ result' = CorpusError(outcome'.err)
          /\ log' = log
    /\ (/\ cpc = "mapping"
        /\ completion' # None
        /\ dflt # None
        /\ ~Parse(defn.output_template, completion'[1]).ok) =>
          /\ outcome'.ok
          /\ ~outcome'.success
          /\ outcome'.error_message = Some(Parse(defn.output_template, completion'[1]).err.msg)
          /\ outs' = Append(outs, outcome')
          /\ (idx < Len(corpus.examples)) => (cpc' = "mapping" /\ idx' = idx + 1)

\* C14: the first map call that raises (a parse error without a default, a
\* missing input key, a failure of the client) ends the batch: no outputs
\* are returned and the client is not called for any later record.  With a
\* default a parse error gives a failed output, with the error's message,
\* for that record only, and the remaining records are mapped.
C14_HaltAtFirstFailure == []BatchHalted /\ [][BatchStepHalts]_vars

C14_Witness ==
    /\ RaisedInBatch
    /\ idx = 1
    /\ Len(corpus.examples) = 2
    /\ Len(log) = 1
    /\ dflt = None
    /\ completion # None
    /\ result.err.msg[1] = "ExpectedIn"

\* With a default the record after a failed one is mapped.
C14_WitnessDefault ==
    /\ cpc = "returned"
    /\ dflt # None
    /\ Len(outs) = 2
    /\ ~outs[1].success
    /\ outs[2].success
    /\ Len(log) = 2

(***************************************************************************)
(* C15. The names of the debug fields.                                     *)
(***************************************************************************)
DebugFieldError == ValueError(<<"DebugFieldInTemplates">>)

\* One of the three debug field names is a key of a template.
DebugNameIsKey ==
    \E n \in {opts.success_field, opts.error_message_field, opts.raw_completion_field} :
        n \in KeySet(defn.input_template) \cup KeySet(defn.output_template)

\* The options with the default names of the debug fields.
WithDefaultNames(o) ==
    [o EXCEPT !.success_field = SuccessField,
              !.error_message_field = ErrorMessageField,
              !.raw_completion_field = RawCompletionField]

\* C15: map_corpus with include_debug_fields raises the debug field error
\* whenever one of the three names is a key of the input or the output
\* template, before any record is mapped and with no call of the client;
\* without include_debug_fields the names do not matter: the error is never
\* raised and the result is the one the default names give.
C15_DebugFieldValidation ==
    (cpc \in {"mapping", "returned", "raised"}) =>
        /\ (opts.include_debug_fields /\ DebugNameIsKey) =>
              /\ cpc = "raised"
              /\ ~result.ok
              /\ result.err = DebugFieldError
              /\ log = <<>>
              /\ outs = <<>>
              /\ idx = 0
              /\ calls = 0
              /\ other = None
        /\ (result.err = DebugFieldError) => (opts.include_debug_fields /\ DebugNameIsKey)
        /\ (~opts.include_debug_fields /\ BatchReturned) =>
              result = MapCorpusResult(corpus, defn, WithDefaultNames(opts), outs)

C15_Witness ==
    /\ cpc = "raised"
    /\ opts.include_debug_fields
    /\ opts.success_field \in KeySet(defn.input_template)
    /\ opts.success_field \notin KeySet(defn.output_template)
    /\ Len(corpus.examples) = 2
    /\ result.err = DebugFieldError
    /\ log = <<>>

\* Without include_debug_fields a name that is a key is no obstacle.
C15_WitnessNoDebug ==
    /\ cpc = "returned"
    /\ ~opts.include_debug_fields
    /\ DebugNameIsKey
    /\ Len(log) = 2

(***************************************************************************)
(* C16. join                                                               *)
(***************************************************************************)
\* C16: join raises the error of common fields when the two field lists
\* share a name, and the error of the row count when they share none and
\* the numbers of examples differ, with no corpus in either case; otherwise
\* the result has the fields of the left corpus followed by those of the
\* right one, and its i-th example is the i-th left example together with
\* the i-th right example.
C16_Join ==
    (cpc = "joined") =>
        LET l == corpus
            r == other[1]
        IN  IF Range(l.fields) \cap Range(r.fields) # {}
            THEN /\ ~result.ok
                 /\ result.err = ValueError(<<"FieldsInCommon">>)
                 /\ result.corpus = Corpus(<<>>, <<>>)
            ELSE IF Len(l.examples) # Len(r.examples)
                 THEN /\ ~result.ok
                      /\ result.err = ValueError(<<"RowCount">>)
                      /\ result.corpus = Corpus(<<>>, <<>>)
                 ELSE /\ result.ok
                      /\ result.corpus.fields = l.fields \o r.fields
                      /\ Len(result.corpus.examples) = Len(l.examples)
                      /\ \A i \in 1..Len(l.examples) :
                            LET e == result.corpus.examples[i]
                            IN  /\ DOMAIN e = DOMAIN l.examples[i] \cup DOMAIN r.examples[i]
                                /\ \A k \in DOMAIN l.examples[i] : e[k] = l.examples[i][k]
                                /\ \A k \in DOMAIN r.examples[i] : e[k] = r.examples[i][k]
                                /\ DOMAIN e = Range(result.corpus.fields)

C16_Witness ==
    /\ cpc = "joined"
    /\ Range(corpus.fields) \cap Range(other[1].fields) # {}
    /\ Len(corpus.examples) # Len(other[1].examples)
    /\ ~result.ok
    /\ result.err = ValueError(<<"FieldsInCommon">>)

\* Two corpora of disjoint fields and different numbers of examples.
C16_WitnessRowCount ==
    /\ cpc = "joined"
    /\ Range(corpus.fields) \cap Range(other[1].fields) = {}
    /\ result.err = ValueError(<<"RowCount">>)

\* Two corpora that are joined.
C16_WitnessJoined ==
    /\ cpc = "joined"
    /\ result.ok
    /\ Len(result.corpus.fields) = 3
    /\ Len(result.corpus.examples) = 2
    /\ result.corpus.examples[1] # result.corpus.examples[2]

(***************************************************************************)
(* C20. The corpus map_corpus returns.                                     *)
(***************************************************************************)
\* The names of a field list are pairwise different.
DistinctFields(f) == \A i, j \in 1..Len(f) : f[i] = f[j] => i = j

\* A corpus as the data model has it: distinct field names, every example
\* with exactly the fields of the corpus.
WellFormed(c) ==
    /\ DistinctFields(c.fields)
    /\ \A i \in 1..Len(c.examples) : DOMAIN c.examples[i] = Range(c.fields)

\* The fields the result takes from the output template and the options.
ExpectedOutputFields ==
    IF opts.include_debug_fields
    THEN defn.output_template.keys
         \o <<opts.success_field, opts.error_message_field, opts.raw_completion_field>>
    ELSE defn.output_template.keys

\* C20: a corpus returned by map_corpus is well formed and aligned with the
\* input: without include_inputs_in_output its fields are the keys of the
\* output template in order, followed by the success, error message and
\* raw completion fields under include_debug_fields, it has one example per
\* example of the input, the i-th holding the parsed values of the i-th
\* output, and every example has exactly the fields of the corpus; with
\* include_inputs_in_output the fields of the input come first and the
\* i-th example is the i-th input example together with the i-th output
\* example.
C20_AlignedResult ==
    (cpc = "returned") =>
        LET res == result.corpus
            n == Len(corpus.examples)
        IN  /\ WellFormed(res)
            /\ Len(res.examples) = n
            /\ Len(outs) = n
            /\ IF opts.include_inputs_in_output
               THEN /\ res.fields = corpus.fields \o ExpectedOutputFields
                    /\ \A i \in 1..n :
                          /\ \A k \in DOMAIN corpus.examples[i] :
                                res.examples[i][k] = corpus.examples[i][k]
                          /\ \A k \in DOMAIN outs[i].parsed :
                                res.examples[i][k] = outs[i].parsed[k]
               ELSE /\ res.fields = ExpectedOutputFields
                    /\ \A i \in 1..n :
                          \A k \in DOMAIN outs[i].parsed :
                              res.examples[i][k] = outs[i].parsed[k]

\* What holds of the result: it is well formed and aligned when the keys of
\* the output template are the keys of its parts and the debug field names
\* in use are pairwise different.
C20_AlignedWhenKeysAgree ==
    (/\ cpc = "returned"
     /\ KeySet(defn.output_template) = PartKeySet(defn.output_template)
     /\ \/ ~opts.include_debug_fields
        \/ DistinctFields(<<opts.success_field, opts.error_message_field,
                            opts.raw_completion_field>>)) =>
        C20_AlignedResult

(***************************************************************************)
(* C21. The fields of the input corpus are compared with the output        *)
(* fields at the join only.                                                *)
(***************************************************************************)
JoinConflictError == ValueError(<<"FieldsInCommon">>)

\* The corpus has a field that is a key of the output template or, with the
\* debug fields, one of the three debug field names.
InputFieldInOutput ==
    \E f \in Range(corpus.fields) :
        \/ f \in KeySet(defn.output_template)
        \/ /\ opts.include_debug_fields
           /\ f \in {opts.success_field, opts.error_message_field, opts.raw_completion_field}

\* C21: when map_corpus with include_inputs_in_output is given a corpus
\* with a field that is an output template key or, with debug fields, a
\* debug field name, and the debug field names pass the validation, no
\* corpus is returned; unless a map call raised before, the error is the
\* one of join for common fields, raised when the client has been called
\* for every record.  That error is never raised earlier or without
\* include_inputs_in_output.
C21_ConflictAtJoinOnly ==
    /\ (/\ cpc \in {"returned", "raised"}
        /\ opts.include_inputs_in_output
        /\ InputFieldInOutput
        /\ ~(opts.include_debug_fields /\ DebugNameIsKey)) =>
          /\ cpc = "raised"
          /\ ~result.ok
          /\ result.corpus = Corpus(<<>>, <<>>)
          /\ \/ RaisedInBatch
             \/ /\ result.err = JoinConflictError
                /\ BatchReturned
                /\ Len(outs) = Len(corpus.examples)
                /\ Len(log) = Len(corpus.examples)
                /\ \A j \in 1..Len(log) : log[j].index = j
    /\ (cpc \in {"mapping", "returned", "raised"} /\ result.err = JoinConflictError) =>
          /\ opts.include_inputs_in_output
          /\ BatchReturned
          /\ Len(log) = Len(corpus.examples)
          /\ Range(corpus.fields) \cap Range(other[1].fields) # {}

C21_Witness ==
    /\ cpc = "raised"
    /\ opts.include_inputs_in_output
    /\ ~opts.include_debug_fields
    /\ Cardinality(KeySet(defn.input_template) \cap KeySet(defn.output_template)) = 1
    /\ Range(corpus.fields) \cap KeySet(defn.output_template) # {}
    /\ result.err = JoinConflictError
    /\ Len(corpus.examples) = 2
    /\ Len(log) = 2

\* The conflict of a debug field name with a field of the corpus that no
\* template has as a key.
C21_WitnessDebugName ==
    /\ cpc = "raised"
    /\ opts.include_inputs_in_output
    /\ opts.include_debug_fields
    /\ Range(corpus.fields) \cap KeySet(defn.output_template) = {}
    /\ result.err = JoinConflictError
    /\ Len(log) = 2

(***************************************************************************)
(* C22. Filling a template with what parse returned.                       *)
(***************************************************************************)
\* No key stands at two placeholders of the template.
NoRepeatedKey(t) == Cardinality(KeyPositions(t)) = Cardinality(PartKeySet(t))

EndsWith(s, p) == Len(p) <= Len(s) /\ SubSeq(s, Len(s) - Len(p) + 1, Len(s)) = p

\* C22: for a template without a repeated key and a text without brace
\* characters that parse accepts, fill of the parsed values succeeds and
\* returns a prefix of the trimmed text: the whole trimmed text when the
\* last part of the template is a placeholder, and the text up to the end
\* of the matched last literal, what follows it being dropped, when the
\* last part is a literal.
C22_ReverseRoundTrip ==
    (/\ pc = "reverse"
     /\ NoRepeatedKey(tpl)
     /\ BraceFree(text)) =>
        LET last == tpl.parts[Len(tpl.parts)]
        IN  /\ filled.ok
            /\ StartsWith(Strip(text), filled.str)
            /\ IsKeyPart(last) => filled.str = Strip(text)
            /\ ~IsKeyPart(last) => EndsWith(filled.str, last.raw)

\* What holds of the code: the same, for a template whose only braces are
\* those of its placeholders and a text without leading or trailing
\* whitespace.
C22_ReverseRoundTripTrimmed ==
    (/\ pc = "reverse"
     /\ NoRepeatedKey(tpl)
     /\ BraceFree(text)
     /\ PlainBraces(tpl.raw)
     /\ IsTrimmed(text)) =>
        LET last == tpl.parts[Len(tpl.parts)]
        IN  /\ filled.ok
            /\ StartsWith(text, filled.str)
            /\ IsKeyPart(last) => filled.str = text
            /\ ~IsKeyPart(last) => EndsWith(filled.str, last.raw)

====
